---- MODULE Spec2Model ----
(***************************************************************************)
(* Model of backend/lite_proxy.py: the SQLite-backed completion cache      *)
(* (table "cache", hash_prompt, cached_completion).                        *)
(*                                                                         *)
(* Python strings are sequences of one-character strings.  An optional     *)
(* value (None or a value) is a sequence of length 0 or 1, so the row      *)
(* tuple returned by fetchone() is <<response>> and None is <<>>.          *)
(* A float temperature is held as its number of hundredths (0.7 is 70).    *)
(* Requests interleave cooperatively: a request runs atomically between    *)
(* its suspension points (the await of the backend call, the await of the  *)
(* next backend chunk, and each yield).  The one shared cursor holds the   *)
(* rows of its last statement that have not been fetched yet.              *)
(***************************************************************************)
EXTENDS Integers, Sequences, FiniteSets, TLC

VARIABLES cache, clock, cursor, reqs, writes

vars == <<cache, clock, cursor, reqs, writes>>

(* ------------------------------ bounds --------------------------------- *)
MaxRequests == 2
MaxTime == 1

(* ------------------------- program constants --------------------------- *)
DefaultTemperature == 70
\* "ollama/llama3.2:1b"
OllamaModel == <<"o","l","l","a","m","a","/","l","l","a","m","a","3",".","2",":","1","b">>
\* "gemini-2.5-flash", the alias the proxy serves
GeminiAlias == <<"g","e","m","i","n","i","-","2",".","5","-","f","l","a","s","h">>

(* ------------------------- input domains ------------------------------- *)
RoleUser == <<"u","s","e","r">>
\* [{"role": "user", "content": "hi"}]
MsgHi == << [role |-> RoleUser, content |-> <<"h","i">>] >>
Messages == {MsgHi}
Temperatures == {DefaultTemperature, 75}
Models == {GeminiAlias, OllamaModel}

TextGaps == <<"h","i"," ","y","o"," "," ">>
Texts == {TextGaps, <<>>}
Streams == { << <<"h","e","l","l","o">>, <<" ","t","h","e","r","e">> >>, << >> }

(* ------------------------- string helpers ------------------------------ *)
RECURSIVE Concat(_)
Concat(ss) == IF ss = <<>> THEN <<>> ELSE Head(ss) \o Concat(Tail(ss))

Digit(d) == CASE d = 0 -> "0" [] d = 1 -> "1" [] d = 2 -> "2" [] d = 3 -> "3"
              [] d = 4 -> "4" [] d = 5 -> "5" [] d = 6 -> "6" [] d = 7 -> "7"
              [] d = 8 -> "8" [] d = 9 -> "9"

RECURSIVE str_int(_)
str_int(n) == IF n < 10 THEN <<Digit(n)>> ELSE str_int(n \div 10) \o <<Digit(n % 10)>>

str_float_1dp(h) == str_int(h \div 100) \o <<".", Digit((h % 100) \div 10)>>

\* str(temperature) for a float of h hundredths: shortest round-trip repr
str_float(h) ==
    str_int(h \div 100) \o <<".">> \o
        (IF h % 10 = 0 THEN <<Digit((h % 100) \div 10)>>
                       ELSE <<Digit((h % 100) \div 10), Digit(h % 10)>>)

\* repr() of a string without quotes or backslashes
repr_str(s) == <<"'">> \o s \o <<"'">>

repr_dict(m) ==
    <<"{","'","r","o","l","e","'",":"," ">> \o repr_str(m.role) \o
    <<",", " ","'","c","o","n","t","e","n","t","'",":"," ">> \o repr_str(m.content) \o <<"}">>

RECURSIVE join_dicts(_)
join_dicts(ms) ==
    IF ms = <<>> THEN <<>>
    ELSE IF Len(ms) = 1 THEN repr_dict(ms[1])
    ELSE repr_dict(ms[1]) \o <<",", " ">> \o join_dicts(Tail(ms))

\* str(messages) for a list of {role, content} dicts
str_messages(ms) == <<"[">> \o join_dicts(ms) \o <<"]">>

\* hashlib.sha256(...).hexdigest(), idealised as collision free: the digest
\* is determined by, and determines, the hashed string
sha256_hexdigest(s) == [sha256 |-> s]

hash_prompt(messages, temperature) ==
    LET prompt_str == str_messages(messages) \o str_float(temperature)
    IN sha256_hexdigest(prompt_str)

\* the cache key of a cached_completion call (line 27)
cache_key_with_model(messages, model, temperature, stream) ==
    sha256_hexdigest(str_messages(messages) \o str_float(temperature) \o model)

cache_key(messages, model, temperature, stream) == hash_prompt(messages, temperature)

RECURSIVE split(_, _)
\* str.split(sep) with a one-character separator
split(s, sep) ==
    IF \A i \in 1..Len(s) : s[i] # sep THEN <<s>>
    ELSE LET i == CHOOSE j \in 1..Len(s) : s[j] = sep /\ \A k \in 1..(j-1) : s[k] # sep
         IN <<SubSeq(s, 1, i-1)>> \o split(SubSeq(s, i+1, Len(s)), sep)

RECURSIVE drop_empty(_)
drop_empty(ss) ==
    IF ss = <<>> THEN <<>>
    ELSE IF Head(ss) = <<>> THEN drop_empty(Tail(ss)) ELSE <<Head(ss)>> \o drop_empty(Tail(ss))

replay_chunks_whitespace(full_resp) ==
    LET parts == drop_empty(split(full_resp, " "))
    IN [i \in 1..Len(parts) |-> parts[i] \o <<" ">>]

\* the delta texts the streaming hit path yields (lines 35-37)
replay_chunks(full_resp) ==
    LET parts == split(full_resp, " ")
    IN [i \in 1..Len(parts) |-> parts[i] \o <<" ">>]

(* ------------------------------ the store ------------------------------ *)
\* cursor.execute("SELECT response FROM cache WHERE hash=?"): the result rows
execute_select(table, h) ==
    IF \E row \in table : row.hash = h
    THEN << << (CHOOSE row \in table : row.hash = h).response >> >>
    ELSE << >>

\* cursor.fetchone() on a cursor holding rows: the next row tuple, or None
fetchone(rows) == IF rows = <<>> THEN <<>> ELSE Head(rows)

\* what the cursor still holds after fetchone()
after_fetchone(rows) == IF rows = <<>> THEN <<>> ELSE Tail(rows)

select_fetchone_stale(table, h) == fetchone(cursor)

\* lines 28-29: the SELECT on the shared cursor, then fetchone()
select_fetchone(table, h) == fetchone(execute_select(table, h))

insert_or_ignore(table, h, response, timestamp) ==
    IF \E row \in table : row.hash = h THEN table
    ELSE table \cup {[hash |-> h, response |-> response, timestamp |-> timestamp]}

insert_evicting(table, h, response, timestamp) ==
    {[hash |-> h, response |-> response, timestamp |-> timestamp]}

insert_plain(table, h, response, timestamp) ==
    table \cup {[hash |-> h, response |-> response, timestamp |-> timestamp]}

\* INSERT OR REPLACE INTO cache (hash, response, timestamp) on PRIMARY KEY hash
insert_or_replace(table, h, response, timestamp) ==
    {row \in table : row.hash # h}
        \cup {[hash |-> h, response |-> response, timestamp |-> timestamp]}

(* ----------------------------- requests -------------------------------- *)
is_hit_nonempty(cached) == cached # <<>> /\ cached[1] # <<>>

\* "if cached:" - a row tuple is truthy, None is not
is_hit(cached) == cached # <<>>

hit_result_blank(cached) == << <<>> >>

\* {'choices': [{'message': {'content': cached[0]}}]} (line 39)
hit_result(cached) == << cached[1] >>

miss_result_stripped(content) ==
    << IF content # <<>> /\ content[Len(content)] = " "
       THEN SubSeq(content, 1, Len(content) - 1) ELSE content >>

\* {'choices': [{'message': {'content': content}}]} (line 58)
miss_result(content) == << content >>

\* the arguments of litellm.acompletion (lines 43-48)
acompletion_args(messages, model, temperature, stream) ==
    [model |-> OllamaModel, messages |-> messages,
     temperature |-> temperature, stream |-> stream]

NewRequest(messages, model, temperature, stream, h, cached) ==
    [messages |-> messages, model |-> model, temperature |-> temperature,
     stream |-> stream, cache_hash |-> h, cached |-> cached,
     pc |-> "start", pending |-> <<>>, out |-> <<>>, result |-> <<>>,
     calls |-> <<>>, error |-> <<>>, writes_at_done |-> 0,
     content |-> <<>>, source |-> <<>>, trace |-> <<"KEY_COMPUTED">>]

resume_rechunked(r, nwrites) ==
    IF r.pending = <<>>
    THEN [r EXCEPT !.pc = "done", !.writes_at_done = nwrites,
                   !.trace = Append(r.trace, "DONE")]
    ELSE [r EXCEPT !.out = Append(r.out, Head(r.pending) \o <<" ">>),
                   !.pending = Tail(r.pending)]

\* a generator resumed after a yield: it yields the next chunk, or finishes
resume(r, nwrites) ==
    IF r.pending = <<>>
    THEN [r EXCEPT !.pc = "done", !.writes_at_done = nwrites,
                   !.trace = Append(r.trace, "DONE")]
    ELSE [r EXCEPT !.out = Append(r.out, Head(r.pending)),
                   !.pending = Tail(r.pending)]

Init ==
    /\ cache = {}
    /\ clock = 0
    /\ cursor = <<>>
    /\ reqs = <<>>
    /\ writes = <<>>

\* cached_completion(...) from the call to its first suspension or return
Call(messages, model, temperature, stream) ==
    /\ Len(reqs) < MaxRequests
    /\ LET h == cache_key(messages, model, temperature, stream)
           cached == select_fetchone(cache, h)
           r == NewRequest(messages, model, temperature, stream, h, cached)
       IN /\ reqs' = Append(reqs,
            IF is_hit(cached)
            THEN IF stream
                 THEN resume([r EXCEPT !.pc = "replay",
                                       !.pending = replay_chunks(cached[1]),
                                       !.trace = Append(r.trace, "HIT")],
                             Len(writes))
                 ELSE [r EXCEPT !.pc = "done", !.result = hit_result(cached),
                                !.writes_at_done = Len(writes),
                                !.trace = r.trace \o <<"HIT", "DONE">>]
            ELSE [r EXCEPT !.pc = "await_backend",
                           !.calls = <<acompletion_args(messages, model, temperature, stream)>>,
                           !.trace = r.trace \o <<"MISS", "BACKEND_CALL">>])
          /\ cursor' = after_fetchone(execute_select(cache, h))
    /\ UNCHANGED <<cache, clock, writes>>

ReplayResume_refreshing(i) ==
    /\ reqs[i].pc = "replay"
    /\ reqs' = [reqs EXCEPT ![i] = resume(reqs[i], Len(writes))]
    /\ cache' = {IF row.hash = reqs[i].cache_hash
                 THEN [row EXCEPT !.timestamp = row.timestamp + 1] ELSE row : row \in cache}
    /\ UNCHANGED <<clock, cursor, writes>>

\* the streaming hit path resumed after a yield: next chunk, or the end
ReplayResume(i) ==
    /\ reqs[i].pc = "replay"
    /\ reqs' = [reqs EXCEPT ![i] = resume(reqs[i], Len(writes))]
    /\ UNCHANGED <<cache, clock, cursor, writes>>

\* await litellm.acompletion(..., stream=False) returns; lines 53-58
AcompletionReturns(i, content, t) ==
    /\ reqs[i].pc = "await_backend"
    /\ ~reqs[i].stream
    /\ t >= clock
    /\ clock' = t
    /\ cache' = insert_or_replace(cache, reqs[i].cache_hash, content, t)
    /\ writes' = Append(writes, [req |-> i, hash |-> reqs[i].cache_hash,
                                 response |-> content, timestamp |-> t])
    /\ cursor' = <<>>
    /\ reqs' = [reqs EXCEPT ![i] =
            [reqs[i] EXCEPT !.pc = "done", !.result = miss_result(content),
                            !.writes_at_done = Len(writes) + 1,
                            !.content = <<content>>,
                            !.trace = reqs[i].trace \o <<"STORE_WRITE", "DONE">>]]

\* sqlite3 raises from the INSERT or the commit (lines 54-56): nothing
\* catches it, the failed statement leaves the table as it was
store_raised(r) == [r EXCEPT !.pc = "raised", !.error = <<"StoreError">>]

\* await litellm.acompletion(..., stream=False) returns, then the store
\* write fails
StoreWriteRaises(i, content) ==
    /\ reqs[i].pc = "await_backend"
    /\ ~reqs[i].stream
    /\ cursor' = <<>>
    /\ reqs' = [reqs EXCEPT ![i] = store_raised([reqs[i] EXCEPT !.content = <<content>>])]
    /\ UNCHANGED <<cache, clock, writes>>

\* await litellm.acompletion(..., stream=True) returns the chunk iterator
AcompletionStreams(i, chunks) ==
    /\ reqs[i].pc = "await_backend"
    /\ reqs[i].stream
    /\ reqs' = [reqs EXCEPT ![i] = [reqs[i] EXCEPT !.pc = "live", !.pending = chunks,
                                                       !.source = <<chunks>>]]
    /\ UNCHANGED <<cache, clock, cursor, writes>>

\* "async for chunk in response: yield chunk", one iteration or the end
LiveResume(i) ==
    /\ reqs[i].pc = "live"
    /\ reqs' = [reqs EXCEPT ![i] = resume(reqs[i], Len(writes))]
    /\ UNCHANGED <<cache, clock, cursor, writes>>

raised_swallowed(r) == [r EXCEPT !.pc = "done", !.result = << <<>> >>, !.pending = <<>>]

\* an exception of the backend propagates out of cached_completion
raised(r) == [r EXCEPT !.pc = "raised", !.error = <<"BackendError">>, !.pending = <<>>]

\* the backend call fails, at the await or while the stream is consumed
AcompletionRaises(i) ==
    /\ reqs[i].pc \in {"await_backend", "live"}
    /\ reqs' = [reqs EXCEPT ![i] = raised(reqs[i])]
    /\ UNCHANGED <<cache, clock, cursor, writes>>

Abandon_persisting(i) ==
    /\ reqs[i].pc \in {"replay", "live"}
    /\ reqs[i].out # <<>>
    /\ reqs' = [reqs EXCEPT ![i] = [reqs[i] EXCEPT !.pc = "closed", !.pending = <<>>]]
    /\ cache' = insert_or_replace(cache, reqs[i].cache_hash, Concat(reqs[i].out), clock)
    /\ UNCHANGED <<clock, cursor, writes>>

\* the caller stops consuming a stream: the generator is closed at its yield
Abandon(i) ==
    /\ reqs[i].pc \in {"replay", "live"}
    /\ reqs[i].out # <<>>
    /\ reqs' = [reqs EXCEPT ![i] = [reqs[i] EXCEPT !.pc = "closed", !.pending = <<>>]]
    /\ UNCHANGED <<cache, clock, cursor, writes>>

Next ==
    \/ \E m \in Messages, md \in Models, t \in Temperatures, s \in BOOLEAN : Call(m, md, t, s)
    \/ \E i \in 1..Len(reqs) : ReplayResume(i)
    \/ \E i \in 1..Len(reqs), c \in Texts, t \in 0..MaxTime : AcompletionReturns(i, c, t)
    \/ \E i \in 1..Len(reqs), c \in Texts : StoreWriteRaises(i, c)
    \/ \E i \in 1..Len(reqs), cs \in Streams : AcompletionStreams(i, cs)
    \/ \E i \in 1..Len(reqs) : LiveResume(i)
    \/ \E i \in 1..Len(reqs) : AcompletionRaises(i)
    \/ \E i \in 1..Len(reqs) : Abandon(i)

Spec == Init /\ [][Next]_vars

(* ------------------------- derived notions ----------------------------- *)
Ids == 1..Len(reqs)
KeyOf(r) == hash_prompt(r.messages, r.temperature)
Rows(table, h) == {row \in table : row.hash = h}
WritesOf(i) == {j \in 1..Len(writes) : writes[j].req = i}
InFlight(r) == r.pc \in {"await_backend", "live"}
Missed(r) == r.cached = <<>>
IsPrefix(s, t) == Len(s) <= Len(t) /\ SubSeq(t, 1, Len(s)) = s

(* C1: a call whose key is in the store at lookup time makes no backend    *)
(* call, whether streaming or not, and without streaming it returns        *)
(* exactly the stored response text.                                       *)
C1_HitStep ==
    Len(reqs') = Len(reqs) + 1 =>
        LET r == reqs'[Len(reqs')]
        IN \A row \in Rows(cache, KeyOf(r)) :
              /\ r.calls = <<>>
              /\ ~InFlight(r)
              /\ ~r.stream => (r.pc = "done" /\ r.result = <<row.response>>)
C1_HitNeverCalls ==
    \A i \in Ids : ~Missed(reqs[i]) => (reqs[i].calls = <<>> /\ ~InFlight(reqs[i]))
C1_HitShortCircuits == []C1_HitNeverCalls /\ [][C1_HitStep]_vars
C1_Witness ==
    \E i \in Ids : /\ ~Missed(reqs[i]) /\ ~reqs[i].stream /\ reqs[i].pc = "done"
                   /\ reqs[i].result = <<TextGaps>> /\ reqs[i].calls = <<>>

(* C2: a non-streaming call that misses and whose backend call succeeds    *)
(* performs exactly one store write, under the key of its messages and     *)
(* temperature, with the text it returns; no request writes twice.         *)
C2_MissPersistsOnce ==
    \A i \in Ids :
        /\ Cardinality(WritesOf(i)) <= 1
        /\ (~reqs[i].stream /\ Missed(reqs[i]) /\ reqs[i].pc = "done") =>
              /\ Cardinality(WritesOf(i)) = 1
              /\ \A j \in WritesOf(i) :
                    /\ writes[j].hash = KeyOf(reqs[i])
                    /\ reqs[i].result = <<writes[j].response>>
C2_Witness ==
    \E i \in Ids : /\ ~reqs[i].stream /\ Missed(reqs[i]) /\ reqs[i].pc = "done"
                   /\ reqs[i].result = <<TextGaps>> /\ WritesOf(i) # {}

(* C3: a streaming call that misses and whose backend stream is consumed   *)
(* to its end leaves a store entry under its key holding the               *)
(* concatenation of the forwarded deltas.                                  *)
C3_StreamingMissPersisted ==
    \A i \in Ids :
        (reqs[i].stream /\ Missed(reqs[i]) /\ reqs[i].pc = "done") =>
            \E row \in Rows(cache, KeyOf(reqs[i])) : row.response = Concat(reqs[i].out)

(* C4: once a miss for (messages, temperature) has completed with text v,  *)
(* a later call with the same messages and temperature, any model and any  *)
(* streaming flag, with no write to the key in between, is a hit on v      *)
(* that makes no backend call.                                             *)
CompletedText(r) == IF r.stream THEN Concat(r.out) ELSE r.result[1]
NoWriteSince(r) == \A j \in 1..Len(writes) : j > r.writes_at_done => writes[j].hash # KeyOf(r)
C4_Step(only_plain) ==
    Len(reqs') = Len(reqs) + 1 =>
        LET r == reqs'[Len(reqs')]
        IN \A i \in Ids :
              ( /\ Missed(reqs[i]) /\ reqs[i].pc = "done"
                /\ only_plain => ~reqs[i].stream
                /\ reqs[i].messages = r.messages /\ reqs[i].temperature = r.temperature
                /\ NoWriteSince(reqs[i]) )
              => /\ r.cached = <<CompletedText(reqs[i])>>
                 /\ r.calls = <<>>
                 /\ ~r.stream => r.result = <<CompletedText(reqs[i])>>
                 /\ r.stream => Concat(r.out \o r.pending) = CompletedText(reqs[i]) \o <<" ">>
C4_MissThenHit == [][C4_Step(FALSE)]_vars
\* the same statement restricted to misses that were not streaming
C4_PlainMissThenHit == [][C4_Step(TRUE)]_vars

(* C5: when the backend call of a miss fails, the step changes neither the *)
(* store nor the write log, the request ends with the backend's error and  *)
(* no response, and a failed request has performed no store write.         *)
C5_FailStep ==
    \A i \in Ids : AcompletionRaises(i) =>
        /\ cache' = cache
        /\ writes' = writes
        /\ reqs'[i].pc = "raised"
        /\ reqs'[i].error = <<"BackendError">>
        /\ reqs'[i].result = <<>>
C5_FailedNeverWrote ==
    \A i \in Ids : reqs[i].pc = "raised" =>
        (WritesOf(i) = {} /\ reqs[i].result = <<>> /\ reqs[i].error # <<>>)
C5_FailureIsolation == []C5_FailedNeverWrote /\ [][C5_FailStep]_vars
C5_Witness ==
    \E i \in Ids : /\ reqs[i].pc = "raised" /\ ~reqs[i].stream
                   /\ reqs[i].error = <<"BackendError">>
                   /\ WritesOf(i) = {} /\ cache # {}

(* C6: the store never holds two entries with one key, and a write of      *)
(* (k, v, t) leaves exactly one entry for k, with value v and timestamp t, *)
(* also when k was already present.                                        *)
C6_OnePerKey == \A r1 \in cache, r2 \in cache : r1.hash = r2.hash => r1 = r2
C6_WriteStep ==
    Len(writes') = Len(writes) + 1 =>
        LET w == writes'[Len(writes')]
        IN Rows(cache', w.hash) =
              {[hash |-> w.hash, response |-> w.response, timestamp |-> w.timestamp]}
C6_IdempotentUpsert == []C6_OnePerKey /\ [][C6_WriteStep]_vars
C6_Witness ==
    /\ Len(writes) = 2
    /\ writes[1].hash = writes[2].hash
    /\ writes[1].response = writes[2].response
    /\ writes[1].timestamp < writes[2].timestamp
    /\ Rows(cache, writes[2].hash) =
          {[hash |-> writes[2].hash, response |-> writes[2].response,
            timestamp |-> writes[2].timestamp]}

(* C7: two calls with the same messages and temperature use the same cache *)
(* key, whatever their model argument and streaming flag, and the key is   *)
(* hash_prompt of the messages and temperature.                            *)
C7_KeyIdentity ==
    \A i \in Ids, j \in Ids :
        (reqs[i].messages = reqs[j].messages /\ reqs[i].temperature = reqs[j].temperature)
            => (reqs[i].cache_hash = reqs[j].cache_hash /\ reqs[i].cache_hash = KeyOf(reqs[i]))
C7_Witness ==
    \E i \in Ids, j \in Ids :
        /\ reqs[i].messages = reqs[j].messages /\ reqs[i].temperature = reqs[j].temperature
        /\ reqs[i].model # reqs[j].model /\ reqs[i].stream # reqs[j].stream
        /\ reqs[i].cache_hash = reqs[j].cache_hash

(* C8: two calls with the same messages and different temperatures hash    *)
(* different strings and so use different cache keys; a call never reads   *)
(* an entry written for another temperature.                               *)
C8_KeySensitivity ==
    /\ \A i \in Ids, j \in Ids :
          (reqs[i].messages = reqs[j].messages /\ reqs[i].temperature # reqs[j].temperature)
              => reqs[i].cache_hash # reqs[j].cache_hash
    /\ \A i \in Ids : ~Missed(reqs[i]) =>
          \E j \in 1..Len(writes) :
              /\ reqs[writes[j].req].temperature = reqs[i].temperature
              /\ reqs[writes[j].req].messages = reqs[i].messages
C8_Witness ==
    \E i \in Ids, j \in Ids :
        /\ reqs[i].messages = reqs[j].messages /\ reqs[i].temperature # reqs[j].temperature
        /\ WritesOf(i) # {} /\ i < j /\ Missed(reqs[j])

(* C9: the streaming hit path yields, left to right, the fragments of the  *)
(* cached text between its spaces, each followed by one appended space;    *)
(* the deltas concatenate to the cached text followed by the last appended *)
(* space, so removing that delimiter gives back the cached text.           *)
WellFormedDelta(d) ==
    /\ d # <<>>
    /\ d[Len(d)] = " "
    /\ \A k \in 1..(Len(d) - 1) : d[k] # " "
C9_StreamEquivalence ==
    \A i \in Ids : (reqs[i].stream /\ ~Missed(reqs[i])) =>
        LET text == reqs[i].cached[1]
            joined == Concat(reqs[i].out)
        IN /\ \A k \in 1..Len(reqs[i].out) : WellFormedDelta(reqs[i].out[k])
           /\ reqs[i].out # <<>>
           /\ IsPrefix(joined, text \o <<" ">>)
           /\ reqs[i].pc = "replay" => Concat(reqs[i].out \o reqs[i].pending) = text \o <<" ">>
           /\ reqs[i].pc = "done" => SubSeq(joined, 1, Len(joined) - 1) = text
           /\ reqs[i].pc = "done" => joined[Len(joined)] = " "
C9_Witness ==
    \E i \in Ids : /\ reqs[i].stream /\ ~Missed(reqs[i]) /\ reqs[i].pc = "done"
                   /\ reqs[i].cached = <<TextGaps>>
                   /\ reqs[i].out = << <<"h","i"," ">>, <<"y","o"," ">>, <<" ">>, <<" ">> >>

(* C10: no two backend calls for one cache key are in flight at once.      *)
C10_OneInFlightPerKey ==
    \A i \in Ids, j \in Ids :
        (i # j /\ InFlight(reqs[i]) /\ InFlight(reqs[j]))
            => reqs[i].cache_hash # reqs[j].cache_hash

(* C11: on a miss the backend is called with the caller's own model        *)
(* identifier, messages, temperature and streaming flag.                   *)
C11_RequestPreserved ==
    \A i \in Ids : reqs[i].calls # <<>> =>
        reqs[i].calls = << [model |-> reqs[i].model, messages |-> reqs[i].messages,
                            temperature |-> reqs[i].temperature, stream |-> reqs[i].stream] >>

(* C12: when the store write of a miss fails after the backend returned,   *)
(* the request still completes and returns the computed response.          *)
C12_StoreFailureNonFatal ==
    \A i \in Ids : reqs[i].content # <<>> =>
        (reqs[i].pc = "done" /\ reqs[i].result = reqs[i].content)

(* C13: for one response text, the deltas of the streaming hit path        *)
(* concatenate to the same string as the deltas the streaming miss path    *)
(* forwards from a backend stream whose deltas concatenate to that text.   *)
RECURSIVE Drain(_)
Drain(r) == IF r.pc = "done" THEN r.out ELSE Drain(resume(r, 0))
LiveDeltas(r, chunks) == Drain([r EXCEPT !.pc = "live", !.pending = chunks, !.out = <<>>])
BackendStreams == Streams \cup {<<t>> : t \in Texts}
C13_CachedLiveIndistinguishable ==
    \A i \in Ids : (reqs[i].stream /\ ~Missed(reqs[i]) /\ reqs[i].pc = "done") =>
        \A cs \in BackendStreams :
            Concat(cs) = reqs[i].cached[1] =>
                Concat(LiveDeltas(reqs[i], cs)) = Concat(reqs[i].out)

(* C14: in every call the key is computed first; the backend is called     *)
(* only after a lookup that missed; the store is written only after the    *)
(* backend response was obtained, by the request that awaited it; a hit    *)
(* goes KEY_COMPUTED, HIT, DONE and a miss KEY_COMPUTED, MISS,             *)
(* BACKEND_CALL, then STORE_WRITE, DONE when it writes.                    *)
HitPath == <<"KEY_COMPUTED", "HIT", "DONE">>
MissPath == <<"KEY_COMPUTED", "MISS", "BACKEND_CALL", "STORE_WRITE", "DONE">>
Occurs(r, e) == \E k \in 1..Len(r.trace) : r.trace[k] = e
C14_TraceOrder ==
    \A i \in Ids :
        LET r == reqs[i] IN
        /\ r.trace[1] = "KEY_COMPUTED" /\ r.cache_hash = KeyOf(r)
        /\ \/ IsPrefix(r.trace, HitPath)
           \/ IsPrefix(r.trace, MissPath)
           \/ r.stream /\ r.trace = <<"KEY_COMPUTED", "MISS", "BACKEND_CALL", "DONE">>
        /\ Occurs(r, "HIT") => ~Missed(r)
        /\ Occurs(r, "BACKEND_CALL") <=> r.calls # <<>>
        /\ Occurs(r, "BACKEND_CALL") => Missed(r)
        /\ Occurs(r, "STORE_WRITE") <=> WritesOf(i) # {}
        /\ Occurs(r, "STORE_WRITE") => (r.calls # <<>> /\ r.content # <<>>)
        /\ Occurs(r, "DONE") <=> r.pc = "done"
C14_WriteStep ==
    Len(writes') = Len(writes) + 1 =>
        LET w == writes'[Len(writes')]
        IN /\ w.req \in Ids
           /\ reqs[w.req].pc = "await_backend"
           /\ reqs'[w.req].content = <<w.response>>
           /\ w.hash = reqs[w.req].cache_hash
C15_OnlyCompleteStored ==
    /\ \A row \in cache :
          \E i \in Ids : /\ reqs[i].cache_hash = row.hash
                         /\ reqs[i].calls # <<>>
                         /\ reqs[i].content = <<row.response>>
    /\ \A i \in Ids : reqs[i].pc \in {"raised", "closed"} => WritesOf(i) = {}
C15_Witness ==
    \E i \in Ids, j \in Ids :
        /\ reqs[i].pc = "closed" /\ Missed(reqs[i]) /\ reqs[i].out # <<>>
        /\ reqs[j].cache_hash = reqs[i].cache_hash /\ WritesOf(j) # {}
        /\ Rows(cache, reqs[i].cache_hash) # {}

(* C16: non-streaming calls with one key that all missed each make their   *)
(* own backend call and their own upsert; when they have finished the      *)
(* store holds one entry for the key, the one of the last upsert.          *)
LastWrite(h) ==
    writes[CHOOSE j \in 1..Len(writes) :
              /\ writes[j].hash = h
              /\ \A k \in 1..Len(writes) : writes[k].hash = h => k <= j]
C16_ConcurrentMisses ==
    \A i \in Ids, j \in Ids :
        ( /\ i # j /\ reqs[i].cache_hash = reqs[j].cache_hash
          /\ ~reqs[i].stream /\ ~reqs[j].stream
          /\ Missed(reqs[i]) /\ Missed(reqs[j])
          /\ reqs[i].pc = "done" /\ reqs[j].pc = "done" )
        => /\ Len(reqs[i].calls) = 1 /\ Len(reqs[j].calls) = 1
           /\ Cardinality(WritesOf(i)) = 1 /\ Cardinality(WritesOf(j)) = 1
           /\ LET w == LastWrite(reqs[i].cache_hash)
              IN Rows(cache, reqs[i].cache_hash) =
                    {[hash |-> w.hash, response |-> w.response, timestamp |-> w.timestamp]}
C16_Witness ==
    /\ Len(reqs) >= 2 /\ Len(writes) = 2
    /\ reqs[1].cache_hash = reqs[2].cache_hash
    /\ Missed(reqs[1]) /\ Missed(reqs[2])
    /\ reqs[1].pc = "done" /\ reqs[2].pc = "done"
    /\ writes[1].response # writes[2].response
    /\ \A row \in Rows(cache, reqs[1].cache_hash) : row.response = writes[2].response

(* C17: on a streaming miss the chunks yielded to the caller are the       *)
(* backend's chunks, in order, none dropped, repeated or altered.          *)
C17_LivePassthrough ==
    \A i \in Ids : (reqs[i].stream /\ Missed(reqs[i]) /\ reqs[i].source # <<>>) =>
        /\ IsPrefix(reqs[i].out, reqs[i].source[1])
        /\ reqs[i].pc = "live" => reqs[i].out \o reqs[i].pending = reqs[i].source[1]
        /\ reqs[i].pc = "done" => reqs[i].out = reqs[i].source[1]
C17_Witness ==
    \E i \in Ids : /\ reqs[i].stream /\ Missed(reqs[i]) /\ reqs[i].pc = "done"
                   /\ reqs[i].source = <<reqs[i].out>> /\ Len(reqs[i].out) = 2

(* C18: no step of a call that hit changes the store: every entry keeps    *)
(* its text and timestamp, and a hit performs no write.                    *)
C18_HitStep ==
    \A i \in 1..Len(reqs') :
        (~Missed(reqs'[i]) /\ (i > Len(reqs) \/ reqs'[i] # reqs[i]))
            => (cache' = cache /\ writes' = writes)
C18_HitNeverWrites == \A i \in Ids : ~Missed(reqs[i]) => WritesOf(i) = {}
C18_HitLeavesStore == []C18_HitNeverWrites /\ [][C18_HitStep]_vars
C18_Witness ==
    \E i \in Ids : /\ ~Missed(reqs[i]) /\ reqs[i].stream /\ reqs[i].pc = "done"
                   /\ \E row \in cache : row.hash = reqs[i].cache_hash
                                         /\ <<row.response>> = reqs[i].cached

(* C19: a key that is in the store stays in the store at every step.       *)
C19_KeysOnlyGrow == [][\A row \in cache : Rows(cache', row.hash) # {}]_vars
C19_Witness ==
    \E r1 \in cache, r2 \in cache : r1.hash # r2.hash

(* C20: the row a call fetches is the result of its own SELECT for its own *)
(* key: the stored response of that key when there is one, None when there *)
(* is none, and no unfetched row is left on the shared cursor.             *)
C20_LookupStep ==
    Len(reqs') = Len(reqs) + 1 =>
        LET r == reqs'[Len(reqs')]
        IN /\ Rows(cache, KeyOf(r)) = {} => r.cached = <<>>
           /\ \A row \in Rows(cache, KeyOf(r)) : r.cached = <<row.response>>
C20_OwnKeyOnly ==
    /\ cursor = <<>>
    /\ \A i \in Ids : ~Missed(reqs[i]) =>
          \E j \in 1..Len(writes) : /\ writes[j].hash = KeyOf(reqs[i])
                                    /\ reqs[i].cached = <<writes[j].response>>
C20_SharedCursorLookup == []C20_OwnKeyOnly /\ [][C20_LookupStep]_vars
C20_Witness ==
    \E i \in Ids, j \in Ids :
        /\ WritesOf(i) # {} /\ reqs[j].cached = <<TextGaps>>
        /\ reqs[j].cache_hash = reqs[i].cache_hash /\ reqs[j].pc = "replay"
====
